---- MODULE Spec2Model ----
(***************************************************************************)
(* asyffmpeg: the run coordinator (AsyFFmpeg.run), the task that launches  *)
(* ffmpeg (AsyFFmpeg.run._run), the external ffmpeg process writing its    *)
(* -progress records to the scratch file, the polling reader               *)
(* (AsyFFmpeg.read_progress), the statistics parser (Statistics.from_line) *)
(* and the scratch file (TempFile).                                        *)
(*                                                                         *)
(* A line of the scratch file is the token the pattern of statistic.py:7   *)
(* finds in it: [key, kind, num].  key is the recognized key the line      *)
(* carries ("other" when the pattern finds none, as for stream_0_0_q=,     *)
(* out_time_us=, out_time_ms=, dup_frames=, drop_frames=); kind is the     *)
(* shape of the value: "num" (a well-formed value, num its magnitude),     *)
(* "NA" (the literal N/A), "continue", "end", or "bad" (any other text).   *)
(***************************************************************************)
EXTENDS Integers, Sequences, FiniteSets, TLC

\* ---------------------------------------------------------------- bounds
MaxRecords == 2      \* records the ffmpeg process writes at most
MaxFrame == 1        \* largest frame counter the process reports

\* ------------------------------------------------------ program constants
BlockLines == 12     \* read_progress: len(lines) >= 12
MinKeys == 4         \* from_line: len(statistics) < 4
SizeUnit == 1024     \* parse_size: * 1024

Paths == {"input.mp4"}
OutPaths == {"output.mp4"}
ExitCodes == {0, 1}
EventNames == {"progress", "start", "end"}
\* what the probe reports for a readable source (frames per second, seconds)
ProbeFramerates == {1}
ProbeDurations == {2}

RecognizedKeys == {"frame", "fps", "size", "time", "bitrate", "speed", "progress"}

\* One record of ffmpeg's -progress output, line by line: frame, fps,
\* stream_0_0_q, bitrate, total_size, out_time_us, out_time_ms, out_time,
\* dup_frames, drop_frames, speed, progress.
RecordKeys ==
  <<"frame", "fps", "other", "bitrate", "size", "other",
    "other", "time", "other", "other", "speed", "progress">>

Line(k, kd, n) == [key |-> k, kind |-> kd, num |-> n]

\* ------------------------------------------------------------- statistics
NoSnapshot ==
  [tag |-> "none", frame |-> 0, fps |-> 0, size |-> 0, time |-> 0,
   bitrate |-> 0, speed |-> 0, progress |-> FALSE]

ParseError == [NoSnapshot EXCEPT !.tag = "err"]

\* the dataclass defaults of Statistics
DefaultStatistics == [NoSnapshot EXCEPT !.tag = "snap"]

\* the first occurrence of a key kept instead of the last
FirstIndexOf(block, k) ==
  LET S == {i \in 1..Len(block) : block[i].key = k}
  IN IF S = {} THEN 0 ELSE CHOOSE i \in S : \A j \in S : j >= i

\* index of the last line of the block carrying key k (0 when none): the dict
\* comprehension over findall keeps the last occurrence
LastIndexOf(block, k) ==
  LET S == {i \in 1..Len(block) : block[i].key = k}
  IN IF S = {} THEN 0 ELSE CHOOSE i \in S : \A j \in S : j <= i

\* statistic.py line 31: the dict of the pattern's matches, key to value
Statistics(block) ==
  [k \in {k \in RecognizedKeys : LastIndexOf(block, k) # 0} |->
     block[LastIndexOf(block, k)]]

\* int, float, parse_size, parse_time and the two float(replace) lambdas raise on
\* a value that is not of their form; the progress lambda never raises
FactoryRaises(k, tok) == k # "progress" /\ tok.kind # "num"

\* the lambda taking every progress value but "bad" text as continuing
ProgressFactoryEndContinues(tok) == tok.kind \in {"continue", "end"}

ProgressFactory(tok) == tok.kind = "continue"

FieldFactory(k, tok) ==
  CASE k = "progress" -> ProgressFactory(tok)
    [] k = "size" -> tok.num * SizeUnit
    [] OTHER -> tok.num

\* statistic.py line 35: the value of field k, or the dataclass default when
\* the key is absent or N/A
Field(statistics, k) ==
  IF k \in DOMAIN statistics /\ statistics[k].kind # "NA"
  THEN FieldFactory(k, statistics[k])
  ELSE DefaultStatistics[k]

\* the values converted before the keys are counted
FromStatisticsConvertFirst(statistics) ==
  IF \E k \in DOMAIN statistics :
       statistics[k].kind # "NA" /\ FactoryRaises(k, statistics[k])
  THEN ParseError
  ELSE IF Cardinality(DOMAIN statistics) < MinKeys THEN NoSnapshot
       ELSE [tag |-> "snap",
             frame |-> Field(statistics, "frame"),
             fps |-> Field(statistics, "fps"),
             size |-> Field(statistics, "size"),
             time |-> Field(statistics, "time"),
             bitrate |-> Field(statistics, "bitrate"),
             speed |-> Field(statistics, "speed"),
             progress |-> Field(statistics, "progress")]

\* statistic.py lines 32-36 on the dict of line 31
FromStatistics(statistics) ==
  IF Cardinality(DOMAIN statistics) < MinKeys THEN NoSnapshot
  ELSE IF \E k \in DOMAIN statistics :
            statistics[k].kind # "NA" /\ FactoryRaises(k, statistics[k])
       THEN ParseError
       ELSE [tag |-> "snap",
             frame |-> Field(statistics, "frame"),
             fps |-> Field(statistics, "fps"),
             size |-> Field(statistics, "size"),
             time |-> Field(statistics, "time"),
             bitrate |-> Field(statistics, "bitrate"),
             speed |-> Field(statistics, "speed"),
             progress |-> Field(statistics, "progress")]

\* Statistics.from_line on the block ' '.join(lines)
from_line(block) ==
  CHOOSE s \in {FromStatistics(d) : d \in {Statistics(b) : b \in {block}}} : TRUE

\* the test written len(lines) > 12
GroupFullOffByOne(acc) == Len(acc) > BlockLines

\* read_progress line 185
GroupFull(acc) == Len(acc) >= BlockLines

\* the async-for loop of read_progress over the lines f[i..]: the accumulator
\* lines holds f[start..i-1], progress is the snapshot of the cycle so far
RECURSIVE ReadLoop(_, _, _, _)
ReadLoop(f, i, start, progress) ==
  IF progress.tag = "err" \/ i > Len(f) THEN <<start, progress>>
  ELSE IF GroupFull(SubSeq(f, start, i))
       THEN \* evaluated here, once: the snapshot of the block just filled
            CHOOSE r \in {ReadLoop(f, i + 1, i + 1, s) : s \in {from_line(SubSeq(f, start, i))}} : TRUE
       ELSE ReadLoop(f, i + 1, start, progress)

\* a trailing block without a snapshot leaving the snapshot of the cycle as it is
ReadProgressKeepsEarlier(f) ==
  CHOOSE p \in
    { IF r[2].tag = "err" THEN r[2]
      ELSE IF r[1] <= Len(f)
           THEN CHOOSE t \in {IF q.tag = "none" THEN r[2] ELSE q :
                                q \in {from_line(SubSeq(f, r[1], Len(f)))}} : TRUE
           ELSE r[2] : r \in {ReadLoop(f, 1, 1, NoSnapshot)} } : TRUE

\* the snapshot one polling cycle ends with (read_progress lines 181-189)
ReadProgress(f) ==
  CHOOSE p \in
    { IF r[2].tag = "err" THEN r[2]
      ELSE IF r[1] <= Len(f) THEN from_line(SubSeq(f, r[1], Len(f)))
      ELSE r[2] : r \in {ReadLoop(f, 1, 1, NoSnapshot)} } : TRUE

\* ------------------------------------------------------- command builder
\* an element of the command: a text, or '-' + key for a key of the map
Arg(text) == [flag |-> FALSE, text |-> text]
Flag(key) == [flag |-> TRUE, text |-> key]

\* the value None of an argument that is a bare flag
NoValue == "None"

\* self._args holds a dict (its items in insertion order) or a list
ArgDict(items) == [kind |-> "dict", items |-> items]
ArgList(items) == [kind |-> "list", items |-> items]

\* self._args = {} of __init__
EmptyArgs == ArgDict(<<>>)

\* __build_command lines 94-98: the loop over the items of the map
RECURSIVE Flatten(_)
Flatten(items) ==
  IF items = <<>> THEN <<>>
  ELSE (IF Head(items)[2] # NoValue
        THEN <<Flag(Head(items)[1]), Arg(Head(items)[2])>>
        ELSE <<Flag(Head(items)[1])>>) \o Flatten(Tail(items))

\* __build_command lines 93-94: a non-empty list is true and has no items()
BuildRaises(a) == a.kind = "list" /\ a.items # <<>>

\* __build_command lines 91-99: the list it builds from a map
BuiltCommand(inp, out, a) ==
  <<Arg("-y"), Arg("-i"), Arg(inp)>> \o Flatten(a.items) \o <<Arg(out)>>

\* no handler is running
NoneInFlight == [e \in EventNames |-> 0]

\* no 'progress' event has been computed
NoMetrics == [pc |-> "none", frame |-> 0, framerate |-> 0, duration |-> 0,
              elapsed |-> 0, fraction |-> 0, remaining |-> 0]

\* ------------------------------------------------------------------ state
VARIABLES
  _input,          \* self._input ("" until input() is called)
  _output,         \* self._output
  events,          \* self.__events: the names with a registered handler
  file_framerate,  \* self.file_framerate (0 before _prepare)
  file_duration,   \* self.file_duration
  runPc,           \* run(): "idle", "gather", "returned", "raised"
  fileExists,      \* the scratch file's path names a file
  file,            \* the lines of the scratch file
  taskPc,          \* _run(): "none", "created", "in_start", "launch", "communicate", "done", "failed"
  proc,            \* the ffmpeg process: "none", "running", "exited"
  procExit,        \* its exit code (-1 while it has none)
  procLine,        \* lines of the current record it has written
  procFrame,       \* frame counter of its current record
  procEnded,       \* it has written its "progress=end" line
  procRecords,     \* records it has completed
  readerPc,        \* read_progress(): "none", "poll", "in_progress", "in_end", "sleeping", "done", "failed"
  progress,        \* read_progress: the snapshot of the current cycle
  startCount,      \* invocations of the 'start' handler
  startArgs,       \* the arguments of its last invocation
  startDone,       \* the 'start' handler has returned
  endCount,        \* invocations of the 'end' handler
  lastEvent,       \* the last handler invoked: "none", "start", "progress", "end"
  lastFrame,       \* frame of the last 'progress' event (-1: none yet)
  prevFrame,       \* frame of the 'progress' event before it (-1: none)
  maxFrame,        \* largest frame of the 'progress' events so far
  sawFinished,     \* a 'progress' event carried isFinished = true
  progressAfterEnd,\* a 'progress' event followed an 'end' event
  cyclesSinceEnd,  \* polling cycles begun with the terminal record in the file
  missedTerminal,  \* a cycle ended in the loop with a snapshot that was not continuing
  removeCount,     \* times the scratch file was removed by TempFile.__aexit__
  _args,           \* self._args: the argument map, or the built command list
  builds,          \* the calls of __build_command so far, with their outcomes
  metrics,         \* the derived metrics of one 'progress' event
  inflight         \* per handler, its invocations that have not returned yet

cfgVars == <<_input, _output, events, file_framerate, file_duration, _args, builds, metrics>>
procVars == <<proc, procExit, procLine, procFrame, procEnded, procRecords>>
startVars == <<startCount, startArgs, startDone>>
readerHist == <<endCount, lastFrame, prevFrame, maxFrame, sawFinished, progressAfterEnd, cyclesSinceEnd,
               missedTerminal>>
vars == <<cfgVars, runPc, fileExists, file, taskPc, procVars, readerPc, progress,
          startVars, readerHist, lastEvent, removeCount, inflight>>

Min(a, b) == IF a < b THEN a ELSE b
Max(a, b) == IF a > b THEN a ELSE b

\* AsyFFmpeg.__init__
Init ==
  /\ _input = "" /\ _output = "" /\ events = {}
  /\ file_framerate = 0 /\ file_duration = 0
  /\ runPc = "idle" /\ fileExists = FALSE /\ file = <<>>
  /\ taskPc = "none" /\ proc = "none" /\ procExit = -1
  /\ procLine = 0 /\ procFrame = 0 /\ procEnded = FALSE /\ procRecords = 0
  /\ readerPc = "none" /\ progress = NoSnapshot
  /\ startCount = 0 /\ startArgs = <<>> /\ startDone = FALSE
  /\ endCount = 0 /\ lastEvent = "none" /\ lastFrame = -1 /\ prevFrame = -1 /\ maxFrame = -1
  /\ sawFinished = FALSE /\ progressAfterEnd = FALSE /\ cyclesSinceEnd = 0
  /\ missedTerminal = FALSE
  /\ removeCount = 0
  /\ _args = EmptyArgs /\ builds = <<>> /\ metrics = NoMetrics
  /\ inflight = NoneInFlight

\* ---------------------------------------------------------- configuration
input(path) ==
  /\ runPc = "idle" /\ _input = ""
  /\ _input' = path
  /\ UNCHANGED <<_output, events, file_framerate, file_duration, runPc, fileExists,
                 file, taskPc, procVars, readerPc, progress, startVars, readerHist,
                 lastEvent, removeCount, _args, builds, metrics, inflight>>

output(path) ==
  /\ runPc = "idle" /\ _output = ""
  /\ _output' = path
  /\ UNCHANGED <<_input, events, file_framerate, file_duration, runPc, fileExists,
                 file, taskPc, procVars, readerPc, progress, startVars, readerHist,
                 lastEvent, removeCount, _args, builds, metrics, inflight>>

on_event(event) ==
  /\ runPc = "idle" /\ event \notin events
  /\ events' = IF event \in EventNames THEN events \cup {event} ELSE events
  /\ UNCHANGED <<_input, _output, file_framerate, file_duration, runPc, fileExists,
                 file, taskPc, procVars, readerPc, progress, startVars, readerHist,
                 lastEvent, removeCount, _args, builds, metrics, inflight>>

\* ------------------------------------------------------------ coordinator
\* the argument map the caller set last: the dict, or the map the list that
\* replaced it was built from
CallerArgs == IF _args.kind = "dict" THEN _args.items ELSE builds[Len(builds)].map

\* __build_command: the list replaces the map in self._args
BuildCommand ==
  /\ builds' = Append(builds,
                  [src |-> _input, out |-> _output, map |-> CallerArgs,
                   raised |-> BuildRaises(_args),
                   command |-> IF BuildRaises(_args) THEN <<>>
                               ELSE BuiltCommand(_input, _output, _args)])
  /\ _args' = IF BuildRaises(_args) THEN _args
              ELSE ArgList(BuiltCommand(_input, _output, _args))

\* a scratch file under a name that is still in use, with a record in it
ReusedTempFile == [i \in 1..BlockLines |-> Line(RecordKeys[i], "num", 1)]

\* TempFile.__init__: NamedTemporaryFile creates a new, empty file
NewTempFile == <<>>

\* a probe that raises on no source
ProbeNeverFails == FALSE

\* the probe reads the source: FFProbe raises on a source it cannot read
ProbeFails == _input = ""

\* run() up to the await of gather: _prepare, __build_command, TempFile() and
\* the creation of the two tasks; none of these yields to the event loop
RunStart(fr, dur) ==
  /\ runPc = "idle"
  /\ IF ProbeFails
     THEN /\ runPc' = "raised"
          /\ UNCHANGED <<file_framerate, file_duration, fileExists, file, taskPc, readerPc,
                         _args, builds>>
     ELSE /\ file_framerate' = fr /\ file_duration' = dur
          /\ BuildCommand
          /\ IF BuildRaises(_args)
             THEN /\ runPc' = "raised"
                  /\ UNCHANGED <<fileExists, file, taskPc, readerPc>>
             ELSE /\ fileExists' = TRUE /\ file' = NewTempFile
                  /\ taskPc' = "created" /\ readerPc' = "poll"
                  /\ runPc' = "gather"
  /\ UNCHANGED <<_input, _output, events, procVars, progress, startVars, readerHist,
                 lastEvent, removeCount, metrics, inflight>>

\* TempFile.__aexit__: close, then os.remove (which raises when the path is gone)
AExit(normal) ==
  /\ fileExists' = FALSE
  /\ removeCount' = IF fileExists THEN Min(removeCount + 1, 2) ELSE removeCount
  /\ runPc' = IF normal /\ fileExists THEN "returned" ELSE "raised"

\* gather returns once both tasks have returned
RunReturn ==
  /\ runPc = "gather" /\ taskPc = "done" /\ readerPc = "done"
  /\ AExit(TRUE)
  /\ UNCHANGED <<cfgVars, file, taskPc, procVars, readerPc, progress, startVars,
                 readerHist, lastEvent, inflight>>

\* gather raises as soon as one task has raised; the other task keeps running
RunRaise ==
  /\ runPc = "gather" /\ (taskPc = "failed" \/ readerPc = "failed")
  /\ AExit(FALSE)
  /\ UNCHANGED <<cfgVars, file, taskPc, procVars, readerPc, progress, startVars,
                 readerHist, lastEvent, inflight>>

\* ------------------------------------------------------------- _run task
\* the 'start' handler called without being awaited
AfterStartCallNoAwait == "launch"

\* _run line 277: the 'start' handler is awaited before the launch
AfterStartCall == "in_start"

\* _run lines 276-277: the 'start' handler is invoked when one is registered
TaskStart ==
  /\ taskPc = "created"
  /\ IF "start" \in events
     THEN /\ taskPc' = AfterStartCall
          /\ startCount' = Min(startCount + 1, 2)
          /\ startArgs' = <<_input, _output>>
          /\ lastEvent' = "start"
          /\ inflight' = [inflight EXCEPT !["start"] = Min(@ + 1, 2)]
     ELSE /\ taskPc' = "launch"
          /\ UNCHANGED <<startCount, startArgs, lastEvent, inflight>>
  /\ UNCHANGED <<cfgVars, runPc, fileExists, file, procVars, readerPc, progress,
                 startDone, readerHist, removeCount>>

\* the awaited 'start' handler returns
StartReturn ==
  /\ taskPc = "in_start"
  /\ taskPc' = "launch" /\ startDone' = TRUE
  /\ inflight' = [inflight EXCEPT !["start"] = @ - 1]
  /\ UNCHANGED <<cfgVars, runPc, fileExists, file, procVars, readerPc, progress,
                 startCount, startArgs, readerHist, lastEvent, removeCount>>

\* create_subprocess_exec: ffmpeg opens (creates, truncates) the progress file
Launch ==
  /\ taskPc = "launch"
  /\ taskPc' = "communicate" /\ proc' = "running"
  /\ fileExists' = TRUE /\ file' = <<>>
  /\ UNCHANGED <<cfgVars, runPc, procExit, procLine, procFrame, procEnded, procRecords, readerPc,
                 progress, startVars, readerHist, lastEvent, removeCount, inflight>>

\* create_subprocess_exec raises (no ffmpeg executable)
LaunchFail ==
  /\ taskPc = "launch"
  /\ taskPc' = "failed"
  /\ UNCHANGED <<cfgVars, runPc, fileExists, file, procVars, readerPc, progress,
                 startVars, readerHist, lastEvent, removeCount, inflight>>

\* proc.communicate() returns when the process has exited
Communicate ==
  /\ taskPc = "communicate" /\ proc = "exited"
  /\ taskPc' = "done"
  /\ UNCHANGED <<cfgVars, runPc, fileExists, file, procVars, readerPc, progress,
                 startVars, readerHist, lastEvent, removeCount, inflight>>

\* ------------------------------------------------------- ffmpeg process
\* the process appends the next line of its current record; frame counters
\* never decrease from one record to the next; once the path is unlinked its
\* writes reach only the unlinked file.  Without an output path ffmpeg has
\* nothing to encode and reports no progress.
ProcAppend(f, kd) ==
  /\ proc = "running" /\ ~procEnded /\ procRecords < MaxRecords
  /\ _output # ""
  /\ LET k == RecordKeys[procLine + 1]
         n == IF k = "frame" THEN f ELSE 1
         knd == IF k = "progress" THEN kd ELSE "num"
     IN /\ k = "frame" => f >= procFrame
        /\ k # "frame" => f = procFrame
        /\ k # "progress" => kd = "continue"
        /\ file' = IF fileExists THEN Append(file, Line(k, knd, n)) ELSE file
        /\ procFrame' = f
        /\ procLine' = (procLine + 1) % Len(RecordKeys)
        /\ procRecords' = IF k = "progress" THEN procRecords + 1 ELSE procRecords
        /\ procEnded' = (k = "progress" /\ kd = "end")
  /\ UNCHANGED <<cfgVars, runPc, fileExists, taskPc, proc, procExit, readerPc, progress,
                 startVars, readerHist, lastEvent, removeCount, inflight>>

\* the process exits, at any point of its output, with any code
ProcExit(code) ==
  /\ proc = "running"
  /\ proc' = "exited" /\ procExit' = code
  /\ UNCHANGED <<cfgVars, runPc, fileExists, file, taskPc, procLine, procFrame, procEnded,
                 procRecords, readerPc, progress, startVars, readerHist, lastEvent,
                 removeCount, inflight>>

\* ----------------------------------------------------------------- reader
\* a complete record ending in progress=end is in the file
TerminalRecord(f) ==
  \E i \in 1..Len(f) :
    i % BlockLines = 0 /\ f[i].key = "progress" /\ f[i].kind = "end"

\* a progress=end token is in the file
TerminalToken(f) == \E i \in 1..Len(f) : f[i].key = "progress" /\ f[i].kind = "end"

\* read_progress line 191
EmitsProgress(p, ev) == p.tag = "snap" /\ "progress" \in ev

\* read_progress line 192 raises ZeroDivisionError
FractionRaises == file_framerate * file_duration = 0

\* the loop left on a continuing snapshot instead
ExitsLoopOnContinue(p) == p.progress = TRUE

\* read_progress line 204
ExitsLoop(p) == p.progress = FALSE

\* the loop without its break
AfterEndNoBreak == "sleeping"

\* read_progress lines 209-210: close and break ("sleeping": the loop goes on)
AfterEnd == "done"

\* the 'progress' handler started without being awaited: the loop goes on
AfterProgressCallNoAwait == "sleeping"

\* read_progress lines 201-202: the 'progress' handler is awaited
AfterProgressCall == "in_progress"

\* read_progress lines 180-202, one polling cycle: up to the await of the
\* 'progress' handler, or to the sleep when no event is due.  The file only
\* grows while it is read, so the lines the loop has seen when it reaches
\* end of file are the file at that moment.
ReaderCycle ==
  /\ readerPc = "poll"
  /\ cyclesSinceEnd' = IF TerminalRecord(file) /\ fileExists
                       THEN Min(cyclesSinceEnd + 1, 2) ELSE cyclesSinceEnd
  /\ IF ~fileExists
     THEN /\ readerPc' = "failed"
          /\ UNCHANGED <<progress, lastEvent, lastFrame, prevFrame, maxFrame,
                         sawFinished, progressAfterEnd, missedTerminal, inflight>>
     ELSE \E p \in {ReadProgress(file)} :
             IF p.tag = "err" \/ (EmitsProgress(p, events) /\ FractionRaises)
             THEN /\ readerPc' = "failed"
                  /\ UNCHANGED <<progress, lastEvent, lastFrame, prevFrame, maxFrame,
                                 sawFinished, progressAfterEnd, missedTerminal, inflight>>
             ELSE IF EmitsProgress(p, events)
                  THEN /\ readerPc' = AfterProgressCall
                       /\ inflight' = [inflight EXCEPT !["progress"] = Min(@ + 1, 2)]
                       /\ progress' = p
                       /\ lastEvent' = "progress"
                       /\ lastFrame' = p.frame
                       /\ prevFrame' = lastFrame
                       /\ maxFrame' = Max(maxFrame, p.frame)
                       /\ sawFinished' = (sawFinished \/ ~p.progress)
                       /\ progressAfterEnd' = (progressAfterEnd \/ endCount > 0)
                       /\ UNCHANGED missedTerminal
                  ELSE /\ readerPc' = "sleeping"
                       /\ progress' = NoSnapshot
                       /\ missedTerminal' = (missedTerminal \/ (p.tag = "snap" /\ ExitsLoop(p)))
                       /\ UNCHANGED <<lastEvent, lastFrame, prevFrame, maxFrame,
                                      sawFinished, progressAfterEnd, inflight>>
  /\ UNCHANGED <<cfgVars, runPc, fileExists, file, taskPc, procVars, startVars,
                 endCount, removeCount>>

\* the awaited 'progress' handler returns: read_progress lines 204-211
ProgressReturn ==
  /\ readerPc = "in_progress"
  /\ inflight' = [inflight EXCEPT !["progress"] = @ - 1,
                                  !["end"] = IF ExitsLoop(progress) /\ "end" \in events
                                             THEN Min(@ + 1, 2) ELSE @]
  /\ IF ExitsLoop(progress)
     THEN IF "end" \in events
          THEN /\ readerPc' = "in_end"
               /\ endCount' = Min(endCount + 1, 2)
               /\ lastEvent' = "end"
               /\ UNCHANGED progress
          ELSE /\ readerPc' = AfterEnd
               /\ UNCHANGED <<endCount, lastEvent, progress>>
     ELSE /\ readerPc' = "sleeping"
          /\ progress' = NoSnapshot
          /\ UNCHANGED <<endCount, lastEvent>>
  /\ UNCHANGED <<cfgVars, runPc, fileExists, file, taskPc, procVars, startVars,
                 lastFrame, prevFrame, maxFrame, sawFinished, progressAfterEnd,
                 cyclesSinceEnd, missedTerminal, removeCount>>

\* the awaited 'end' handler returns: read_progress lines 209-210
EndReturn ==
  /\ readerPc = "in_end"
  /\ readerPc' = AfterEnd
  /\ inflight' = [inflight EXCEPT !["end"] = @ - 1]
  /\ progress' = IF AfterEnd = "done" THEN progress ELSE NoSnapshot
  /\ UNCHANGED <<cfgVars, runPc, fileExists, file, taskPc, procVars, startVars,
                 readerHist, lastEvent, removeCount>>

\* read_progress line 211: asyncio.sleep(1) returns and the loop reopens the file
ReaderWake ==
  /\ readerPc = "sleeping"
  /\ readerPc' = "poll"
  /\ UNCHANGED <<cfgVars, runPc, fileExists, file, taskPc, procVars, progress, startVars,
                 readerHist, lastEvent, removeCount, inflight>>

\* ---------------------------------------------------------- specification
Configure ==
  \/ \E path \in Paths : input(path)
  \/ \E path \in OutPaths : output(path)
  \/ \E event \in EventNames : on_event(event)

RunNext ==
  \/ \E fr \in ProbeFramerates, dur \in ProbeDurations : RunStart(fr, dur)
  \/ RunReturn
  \/ RunRaise

TaskNext == TaskStart \/ StartReturn \/ Launch \/ LaunchFail \/ Communicate

ProcNext ==
  \/ \E f \in 0..MaxFrame, kd \in {"continue", "end"} : ProcAppend(f, kd)
  \/ \E code \in ExitCodes : ProcExit(code)

ReaderNext == ReaderCycle \/ ProgressReturn \/ EndReturn \/ ReaderWake

Next == Configure \/ RunNext \/ TaskNext \/ ProcNext \/ ReaderNext

Spec == Init /\ [][Next]_vars

\* the steps the asyncio event loop takes
LoopNext == RunNext \/ TaskNext \/ ReaderNext

\* the event loop keeps running while a task of it can run
FairSpec == Spec /\ WF_vars(LoopNext)

\* --------------------------------------------------------- external actor
\* another program unlinks the scratch file, which TempFile created under a
\* name in the shared temporary directory (delete=False): no lines can be read
\* under that name any more
ExternalDelete ==
  /\ runPc = "gather" /\ fileExists
  /\ fileExists' = FALSE /\ file' = <<>>
  /\ UNCHANGED <<cfgVars, runPc, taskPc, procVars, readerPc, progress, startVars,
                 readerHist, lastEvent, removeCount, inflight>>

\* another program truncates the scratch file to no lines
ExternalTruncate ==
  /\ runPc = "gather" /\ fileExists /\ file # <<>>
  /\ file' = <<>>
  /\ UNCHANGED <<cfgVars, runPc, fileExists, taskPc, procVars, readerPc, progress,
                 startVars, readerHist, lastEvent, removeCount, inflight>>

NextExt == Next \/ ExternalDelete \/ ExternalTruncate

SpecExt == Init /\ [][NextExt]_vars

TypeOK ==
  /\ runPc \in {"idle", "gather", "returned", "raised"}
  /\ taskPc \in {"none", "created", "in_start", "launch", "communicate", "done", "failed"}
  /\ readerPc \in {"none", "poll", "in_progress", "in_end", "sleeping", "done", "failed"}
  /\ proc \in {"none", "running", "exited"}
  /\ Len(file) <= MaxRecords * BlockLines

\* ----------------------------------------------------------------- claims
BothHandlers == "progress" \in events /\ "end" \in events

C2_EndOnlyAfterTerminal ==
  (endCount > 0 \/ sawFinished \/ readerPc = "done") => TerminalToken(file)

\* C3: once the process has exited with a non-zero code or without having
\* written a terminal record, run() eventually terminates with an error.
C3_NoHangOnProducerDeath ==
  (proc = "exited" /\ (procExit # 0 \/ ~procEnded)) ~> (runPc = "raised")

\* C4: no polling cycle whose snapshot is not continuing ends with the reader
\* still in its loop, whichever handlers are registered.
C4_TerminalSnapshotExits == ~missedTerminal

\* C5: the scratch file exists from the start of the run until the process and
\* both tasks have finished, and is removed once, only after they have.
C5_ScratchLifetime ==
  /\ removeCount <= 1
  /\ runPc = "gather" => fileExists
  /\ removeCount > 0 =>
       /\ proc # "running"
       /\ taskPc \in {"done", "failed"}
       /\ readerPc \in {"done", "failed"}

\* C6: run() has returned normally only when the process has exited and the
\* reader has left its loop with a terminal record in the scratch file.
C6_ReturnsOnlyWhenComplete ==
  runPc = "returned" =>
    /\ proc = "exited" /\ taskPc = "done"
    /\ readerPc = "done" /\ TerminalRecord(file)

\* C7: the 'end' handler is invoked at most once in a run and no 'progress'
\* event follows it.
C7_EndOnceAfterProgress == endCount <= 1 /\ ~progressAfterEnd

C7_Witness ==
  /\ endCount = 1 /\ lastEvent = "end" /\ readerPc = "done"
  /\ prevFrame >= 0 /\ lastFrame >= 0

\* C8: with a 'start' handler registered, the process is launched only after
\* the handler was invoked once with (source path, output path) and has
\* returned; the handler is never invoked twice.
C8_StartBeforeLaunch ==
  /\ startCount <= 1
  /\ ("start" \in events /\
        (proc # "none" \/ taskPc \in {"launch", "communicate", "done", "failed"})) =>
       /\ startCount = 1 /\ startDone
       /\ startArgs = <<_input, _output>>
  /\ (startCount = 1 /\ ~startDone) => (taskPc = "in_start" /\ proc = "none")

C8_Witness ==
  /\ "start" \in events /\ proc = "running" /\ startDone
  /\ startCount = 1 /\ startArgs = <<"input.mp4", "output.mp4">>

\* C9: the frame of every 'progress' event is at least the frame of every
\* earlier 'progress' event of the run.
C9_FramesNonDecreasing == lastFrame = maxFrame /\ prevFrame <= lastFrame

C9_Witness ==
  /\ prevFrame = 0 /\ lastFrame = 1 /\ Len(file) > BlockLines
  /\ readerPc = "in_progress"

\* C10: while the run is under way the reader never fails, even when the
\* scratch file is deleted or truncated by an external actor; it reopens the
\* file on its next cycle and goes on.
C10_ReaderSurvives == runPc = "gather" => readerPc # "failed"

\* ------------------------------------------------- probe values of any kind
\* the Duration text of the probe: a clock time h:m:s.f, or any other text
Clock(h, m, sec) == [clock |-> TRUE, hours |-> h, minutes |-> m, seconds |-> sec]
NotAClock == [clock |-> FALSE, hours |-> 0, minutes |-> 0, seconds |-> 0]

\* util.convert_to_seconds: the seconds of a clock time, 0 for any other text
convert_to_seconds(d) ==
  IF d.clock THEN d.hours * 3600 + d.minutes * 60 + d.seconds ELSE 0

\* what FFProbe can report for a source it can read
ProbedDurations == {Clock(0, 0, 2), Clock(0, 0, 0), NotAClock}
ProbedFramerates == {0, 1}

\* _prepare with any probe result
RunNextProbe ==
  \/ \E fr \in ProbedFramerates, d \in ProbedDurations : RunStart(fr, convert_to_seconds(d))
  \/ RunReturn
  \/ RunRaise

NextProbe == Configure \/ RunNextProbe \/ TaskNext \/ ProcNext \/ ReaderNext

SpecProbe == Init /\ [][NextProbe]_vars

\* C11: a run whose probed duration or frame rate is 0 (a Duration text that
\* is no clock time, a zero frame rate) is never ended by its reader raising:
\* the fraction is computed without a division by zero
C11_ZeroDurationNotFatal ==
  (runPc = "gather" /\ file_framerate * file_duration = 0) => readerPc # "failed"

\* C12: a run whose probe failed has raised, and has invoked no handler,
\* launched no process, started neither task and created no scratch file
C12_ProbeFailureAbortsFirst ==
  (_input = "" /\ runPc # "idle") =>
     /\ runPc = "raised"
     /\ startCount = 0 /\ lastEvent = "none"
     /\ proc = "none" /\ taskPc = "none" /\ readerPc = "none"
     /\ ~fileExists /\ removeCount = 0 /\ builds = <<>>

\* a run on an unset source, with all else configured, has raised
C12_Witness ==
  runPc = "raised" /\ _input = "" /\ _output # "" /\ events = EventNames

\* ------------------------------------------------ the builder, run by run
\* the largest argument map of args(), and the calls of the builder
MaxArgs == 2
MaxBuilds == 2

\* keys and values of the argument maps: a valued option and a bare flag
ArgKeys == {"vf", "an"}
ArgValues == {"scale=1920:1080", NoValue}

\* the dicts over them, as their items in insertion order
ArgMaps ==
  {m \in UNION {[1..n -> ArgKeys \X ArgValues] : n \in 0..MaxArgs} :
     \A i, j \in DOMAIN m : i # j => m[i][1] # m[j][1]}

\* args(): the map replaces self._args
args(a) ==
  /\ runPc = "idle"
  /\ _args' = ArgDict(a)
  /\ UNCHANGED <<_input, _output, events, file_framerate, file_duration, runPc, fileExists,
                 file, taskPc, procVars, readerPc, progress, startVars, readerHist,
                 lastEvent, removeCount, builds, metrics, inflight>>

\* dict item assignment: a present key keeps its place
SetItem(items, k, v) ==
  IF \E i \in DOMAIN items : items[i][1] = k
  THEN [i \in DOMAIN items |-> IF items[i][1] = k THEN <<k, v>> ELSE items[i]]
  ELSE Append(items, <<k, v>>)

\* add_arg(): self._args[arg_key] = arg_value, a TypeError on the built list
add_arg(k, v) ==
  /\ runPc = "idle"
  /\ _args' = IF _args.kind = "dict" THEN ArgDict(SetItem(_args.items, k, v)) ELSE _args
  /\ UNCHANGED <<_input, _output, events, file_framerate, file_duration, runPc, fileExists,
                 file, taskPc, procVars, readerPc, progress, startVars, readerHist,
                 lastEvent, removeCount, builds, metrics, inflight>>

\* __build_command as run() line 270 calls it, once per run of the instance
build_command ==
  /\ runPc = "idle" /\ Len(builds) < MaxBuilds
  /\ BuildCommand
  /\ UNCHANGED <<_input, _output, events, file_framerate, file_duration, runPc, fileExists,
                 file, taskPc, procVars, readerPc, progress, startVars, readerHist,
                 lastEvent, removeCount, metrics, inflight>>

NextBuild ==
  \/ \E path \in Paths : input(path)
  \/ \E path \in OutPaths : output(path)
  \/ \E a \in ArgMaps : args(a)
  \/ \E k \in ArgKeys, v \in ArgValues : add_arg(k, v)
  \/ build_command

SpecBuild == Init /\ [][NextBuild]_vars

\* C13: any two calls of the builder with the same source path, output path
\* and argument map return, and return the same command, also when no
\* argument was set again between them
C13_BuilderIdempotent ==
  \A i, j \in DOMAIN builds :
     (builds[i].src = builds[j].src /\ builds[i].out = builds[j].out
        /\ builds[i].map = builds[j].map)
     => (~builds[i].raised /\ ~builds[j].raised
           /\ builds[i].command = builds[j].command)

\* ------------------------------------------- the reader on any written file
\* the longest trailing block of the files drawn
MaxBlockLen == 5

\* lines a writer of the scratch file may put in a block: well-formed values,
\* a repeated key, a malformed value, the literal N/A
BlockTokens ==
  {Line("frame", "num", 1), Line("frame", "num", 2), Line("frame", "bad", 0),
   Line("bitrate", "NA", 0), Line("size", "num", 1), Line("progress", "end", 0)}

Blocks == UNION {[1..n -> BlockTokens] : n \in 0..MaxBlockLen}

\* a complete record of a process that goes on
CompleteRecord ==
  [i \in 1..BlockLines |->
     Line(RecordKeys[i], IF RecordKeys[i] = "progress" THEN "continue" ELSE "num", 1)]

\* the files: no or one complete record, then a shorter block of any lines
WrittenFiles == {pre \o b : pre \in {<<>>, CompleteRecord}, b \in Blocks}

\* a run of test.py's configuration at the moment its process, having written
\* the file, has exited and the reader has not polled yet
InitFile ==
  /\ _input \in Paths /\ _output \in OutPaths /\ events = EventNames
  /\ file_framerate \in ProbeFramerates /\ file_duration \in ProbeDurations
  /\ runPc = "gather" /\ fileExists = TRUE /\ file \in WrittenFiles
  /\ taskPc = "done" /\ proc = "exited" /\ procExit = 0
  /\ procLine = 0 /\ procFrame = 0 /\ procEnded = FALSE /\ procRecords = 0
  /\ readerPc = "poll" /\ progress = NoSnapshot
  /\ startCount = 1 /\ startArgs = <<_input, _output>> /\ startDone = TRUE
  /\ endCount = 0 /\ lastEvent = "start" /\ lastFrame = -1 /\ prevFrame = -1 /\ maxFrame = -1
  /\ sawFinished = FALSE /\ progressAfterEnd = FALSE /\ cyclesSinceEnd = 0
  /\ missedTerminal = FALSE
  /\ removeCount = 0
  /\ _args = ArgList(BuiltCommand(_input, _output, EmptyArgs))
  /\ builds = <<[src |-> _input, out |-> _output, map |-> <<>>, raised |-> FALSE,
                 command |-> BuiltCommand(_input, _output, EmptyArgs)]>>
  /\ metrics = NoMetrics
  /\ inflight = NoneInFlight

NextFile == ReaderNext \/ RunReturn \/ RunRaise

SpecFile == InitFile /\ [][NextFile]_vars

\* the recognized keys a block carries
KeysOf(block) == {block[i].key : i \in DOMAIN block} \cap RecognizedKeys

\* the file is one block, shorter than a record
OneBlock == Len(file) < BlockLines

\* the last line of the block that carries key k
LastToken(block, k) ==
  block[CHOOSE i \in DOMAIN block :
          block[i].key = k /\ \A j \in DOMAIN block : j > i => block[j].key # k]

\* the zero value of the type of field k
ZeroValue(k) == IF k = "progress" THEN FALSE ELSE 0

\* the field k of the snapshot of a block: the zero value for an absent or
\* N/A key, else what the parser of the field makes of the last occurrence
ExpectedField(block, k) ==
  IF k \notin KeysOf(block) \/ LastToken(block, k).kind = "NA"
  THEN ZeroValue(k)
  ELSE FieldFactory(k, LastToken(block, k))

ExpectedSnapshot(block) ==
  [k \in RecognizedKeys \cup {"tag"} |->
     IF k = "tag" THEN "snap" ELSE ExpectedField(block, k)]

\* every value the block gives a key last is N/A or of the form of its field
WellFormed(block) ==
  \A k \in KeysOf(block) :
     LastToken(block, k).kind = "NA" \/ ~FactoryRaises(k, LastToken(block, k))

\* the reader holds the snapshot of an event it has emitted
HoldsSnapshot == readerPc \in {"in_progress", "in_end", "done"}

\* C14: a block with fewer than 4 distinct recognized keys, whatever its
\* values, parses to 'no snapshot' without raising, and the reader neither
\* fails nor emits on it: it sleeps and polls again
C14_FewKeysNoSnapshot ==
  (OneBlock /\ Cardinality(KeysOf(file)) < MinKeys) =>
     /\ readerPc # "poll" => from_line(file) = NoSnapshot
     /\ readerPc \in {"poll", "sleeping"}
     /\ progress = NoSnapshot /\ lastEvent = "start" /\ lastFrame = -1

\* the reader sleeps after a block of three keys, one with a malformed value
C14_Witness ==
  /\ readerPc = "sleeping" /\ OneBlock
  /\ Cardinality(KeysOf(file)) = MinKeys - 1
  /\ \E i \in DOMAIN file : file[i].kind = "bad"

\* C15: every block with at least 4 distinct recognized keys parses to a
\* snapshot: the zero value for each absent or N/A key, the field parser's
\* value of the last occurrence for each other key (as claimed: for every
\* such block)
C15_EveryBlockParses ==
  (OneBlock /\ Cardinality(KeysOf(file)) >= MinKeys) =>
     /\ readerPc # "poll" => from_line(file) = ExpectedSnapshot(file)
     /\ readerPc # "failed"
     /\ HoldsSnapshot => progress = ExpectedSnapshot(file)

\* C15, amended: so it is for every such block whose values are N/A or
\* well-formed; when the last value of some key is neither, the parser raises
C15_WellFormedBlockParses ==
  (OneBlock /\ Cardinality(KeysOf(file)) >= MinKeys) =>
     IF WellFormed(file)
     THEN /\ readerPc # "poll" => from_line(file) = ExpectedSnapshot(file)
          /\ readerPc # "failed"
          /\ HoldsSnapshot => progress = ExpectedSnapshot(file)
     ELSE /\ readerPc # "poll" => from_line(file) = ParseError
          /\ readerPc \in {"poll", "failed"}

\* an event was emitted from a block of 4 keys, N/A among them, in which a
\* key occurs twice with different values
C15_Witness ==
  /\ HoldsSnapshot /\ OneBlock
  /\ Cardinality(KeysOf(file)) = MinKeys
  /\ \E i \in DOMAIN file : file[i].kind = "NA"
  /\ \E i, j \in DOMAIN file :
        i < j /\ file[i].key = "frame" /\ file[j].key = "frame" /\ file[i].num # file[j].num
  /\ progress.frame = LastToken(file, "frame").num

\* the blocks the lines of a file fall into, 12 by 12 from its beginning
BlocksOf(f) ==
  {SubSeq(f, BlockLines * (b - 1) + 1, Min(BlockLines * b, Len(f))) :
     b \in 1..((Len(f) + BlockLines - 1) \div BlockLines)}

\* the last of them: the trailing short block when there is one
LastBlockOf(f) ==
  IF f = <<>> THEN <<>>
  ELSE SubSeq(f, BlockLines * ((Len(f) - 1) \div BlockLines) + 1, Len(f))

\* C17: a polling cycle over the whole file, no block of which raises, ends on
\* the parse of its last block alone: with a snapshot there it invokes the
\* 'progress' handler once, with that snapshot; with 'no snapshot' there it
\* invokes no handler, whatever the earlier blocks parsed to
C17_LastBlockOnly ==
  [][(readerPc = "poll" /\ readerPc' # "poll" /\ fileExists /\ "progress" \in events
        /\ \A blk \in BlocksOf(file) : from_line(blk).tag # "err")
     => \E s \in {from_line(LastBlockOf(file))} :
          IF s.tag = "snap"
          THEN /\ readerPc' = "in_progress" /\ progress' = s
               /\ lastEvent' = "progress" /\ lastFrame' = s.frame
               /\ inflight'["progress"] = inflight["progress"] + 1
          ELSE /\ readerPc' = "sleeping"
               /\ lastEvent' = lastEvent /\ lastFrame' = lastFrame
               /\ inflight' = inflight]_vars

\* a cycle over a complete record and a trailing block without a snapshot has
\* ended in the sleep, and no 'progress' event was emitted
C17_Witness ==
  /\ readerPc = "sleeping" /\ Len(file) > BlockLines
  /\ from_line(SubSeq(file, 1, BlockLines)).tag = "snap"
  /\ from_line(LastBlockOf(file)).tag = "none"
  /\ lastEvent = "start" /\ lastFrame = -1

\* ------------------------------------- the metrics of a 'progress' event
\* frames 0..MaxMetricFrame and elapsed times 0..MaxElapsed (in microseconds,
\* the unit of timedelta) are drawn
MaxMetricFrame == 6
MaxElapsed == 3

MetricFrames == 0..MaxMetricFrame \cup {150, 450}
MetricRates == {0, 1, 2, 8, 30}
MetricDurations == {0, 1, 3, 10}

Abs(n) == IF n < 0 THEN -n ELSE n

\* n / d in binary floating point, rounded to an integer: the nearest one,
\* and at a tie the neighbour the binary value of the quotient lies nearer to
Nearest(n, d) == {r \in (n \div d)..(n \div d + 1) : 2 * Abs(n - r * d) <= d}

\* read_progress line 192, in hundredths: round(frame / (rate * duration), 2).
\* A tie (2q+1)/200 that binary floating point holds exactly, 25 dividing
\* 2q+1, goes to the even hundredth
Fractions(frame, rate, duration) ==
  LET cand == Nearest(100 * frame, rate * duration)
      q == CHOOSE c \in cand : \A c2 \in cand : c <= c2
  IN IF Cardinality(cand) = 2 /\ (2 * q + 1) % 25 = 0
     THEN {c \in cand : c % 2 = 0}
     ELSE cand

\* the time the whole run is estimated to take, given as the remaining time
TotalTimes(elapsed, q) ==
  IF q > 0 /\ q < 100 THEN Nearest(100 * elapsed, q) ELSE {0}

\* read_progress lines 194-197: timedelta(seconds=elapsed / fraction) - elapsed
\* when 0 < fraction < 1, else timedelta()
RemainingTimes(elapsed, q) ==
  IF q > 0 /\ q < 100 THEN {t - elapsed : t \in Nearest(100 * elapsed, q)} ELSE {0}

\* the reader at line 192 of a cycle that parsed a snapshot, in a run of
\* test.py's configuration
InitMetrics ==
  /\ _input \in Paths /\ _output \in OutPaths /\ events = EventNames
  /\ file_framerate \in MetricRates /\ file_duration \in MetricDurations
  /\ runPc = "gather" /\ fileExists = TRUE /\ file = <<>>
  /\ taskPc = "done" /\ proc = "exited" /\ procExit = 0
  /\ procLine = 0 /\ procFrame = 0 /\ procEnded = FALSE /\ procRecords = 0
  /\ readerPc = "poll"
  /\ progress \in {[DefaultStatistics EXCEPT !.frame = f] : f \in MetricFrames}
  /\ startCount = 1 /\ startArgs = <<_input, _output>> /\ startDone = TRUE
  /\ endCount = 0 /\ lastEvent = "start" /\ lastFrame = -1 /\ prevFrame = -1 /\ maxFrame = -1
  /\ sawFinished = FALSE /\ progressAfterEnd = FALSE /\ cyclesSinceEnd = 0
  /\ missedTerminal = FALSE
  /\ removeCount = 0
  /\ _args = ArgList(BuiltCommand(_input, _output, EmptyArgs))
  /\ builds = <<[src |-> _input, out |-> _output, map |-> <<>>, raised |-> FALSE,
                 command |-> BuiltCommand(_input, _output, EmptyArgs)]>>
  /\ metrics = NoMetrics
  /\ inflight = NoneInFlight

\* read_progress lines 192-197 on the snapshot of the cycle; elapsed is what
\* datetime.now() - self.__start_time gives
ProgressMetrics(elapsed) ==
  /\ metrics.pc = "none" /\ readerPc = "poll" /\ progress.tag = "snap"
  /\ IF FractionRaises
     THEN metrics' = [NoMetrics EXCEPT !.pc = "raised", !.frame = progress.frame,
                        !.framerate = file_framerate, !.duration = file_duration]
     ELSE \E q \in Fractions(progress.frame, file_framerate, file_duration) :
          \E r \in RemainingTimes(elapsed, q) :
             metrics' = [pc |-> "done", frame |-> progress.frame,
                         framerate |-> file_framerate, duration |-> file_duration,
                         elapsed |-> elapsed, fraction |-> q, remaining |-> r]
  /\ UNCHANGED <<_input, _output, events, file_framerate, file_duration, _args, builds,
                 runPc, fileExists, file, taskPc, procVars, readerPc, progress,
                 startVars, readerHist, lastEvent, removeCount, inflight>>

NextMetrics == \E elapsed \in 0..MaxElapsed : ProgressMetrics(elapsed)

SpecMetrics == InitMetrics /\ [][NextMetrics]_vars

\* C18: the fraction of a 'progress' event is frame / (rate * duration) to the
\* nearest hundredth, below 0 or above 1 when the quotient is; the remaining
\* time is elapsed / fraction - elapsed, to the nearest microsecond and not
\* negative, when 0 < fraction < 1, and zero otherwise; rate 30, duration 10
\* and frame 150 give 0.50
C18_DerivedMetrics ==
  metrics.pc = "done" =>
     /\ 2 * Abs(100 * metrics.frame - metrics.fraction * metrics.framerate * metrics.duration)
           <= metrics.framerate * metrics.duration
     /\ (metrics.fraction > 0 /\ metrics.fraction < 100) =>
           /\ metrics.remaining >= 0
           /\ 2 * Abs(metrics.fraction * (metrics.remaining + metrics.elapsed)
                        - 100 * metrics.elapsed) <= metrics.fraction
     /\ (metrics.fraction <= 0 \/ metrics.fraction >= 100) => metrics.remaining = 0
     /\ (metrics.frame = 150 /\ metrics.framerate = 30 /\ metrics.duration = 10)
           => metrics.fraction = 50

\* the metrics of frame 150 at rate 30 and duration 10 after some time: half
\* done, as much time remaining as has elapsed
C18_Witness ==
  /\ metrics.pc = "done"
  /\ metrics.frame = 150 /\ metrics.framerate = 30 /\ metrics.duration = 10
  /\ metrics.fraction = 50 /\ metrics.elapsed > 0 /\ metrics.remaining = metrics.elapsed

\* ------------------------------------------------- events of a whole run
\* C16: no handler has two invocations under way at once, and the 'start'
\* handler is invoked at most once in a run
C16_HandlersSerialized ==
  /\ \A e \in EventNames : inflight[e] <= 1
  /\ startCount <= 1
  /\ readerPc = "in_progress" <=> inflight["progress"] = 1
  /\ readerPc = "in_end" <=> inflight["end"] = 1

\* the 'progress' handler is under way for the second time in the run, the
\* handlers of 'start' and of the first 'progress' event having returned
C16_Witness ==
  /\ inflight["progress"] = 1 /\ inflight["start"] = 0
  /\ prevFrame >= 0 /\ startDone /\ startCount = 1

\* C19: once a 'progress' event has carried isFinished = true the reader is in
\* its handler, in the 'end' handler or out of the loop, with the snapshot of
\* that event still its last; the reader leaves the loop only so, and a run
\* that has ended after 'progress' events has seen a finished one; the 'end'
\* handler is invoked only from the return of the handler of such an event,
\* which then is the last event emitted
C19_FinishedIsLast ==
  /\ [](sawFinished => (/\ readerPc \in {"in_progress", "in_end", "done"}
                        /\ progress.tag = "snap" /\ ~progress.progress
                        /\ progress.frame = lastFrame))
  /\ [](readerPc \in {"in_end", "done"} => sawFinished)
  /\ [](lastEvent = "end" => (sawFinished /\ endCount = 1 /\ readerPc \in {"in_end", "done"}))
  /\ []((runPc \in {"returned", "raised"} /\ lastFrame >= 0) => sawFinished)
  /\ [][endCount' # endCount =>
          (/\ readerPc = "in_progress" /\ lastEvent = "progress" /\ sawFinished
           /\ ~progress.progress /\ readerPc' = "in_end")]_vars
  /\ [][(readerPc = "in_progress" /\ readerPc' # "in_progress") =>
          IF progress.progress THEN readerPc' = "sleeping"
          ELSE IF "end" \in events THEN readerPc' = "in_end" /\ lastEvent' = "end"
          ELSE readerPc' = "done" /\ lastEvent' = lastEvent]_vars

\* a run returned after two 'progress' events, the last one finished, and an
\* 'end' event
C19_Witness ==
  /\ runPc = "returned" /\ sawFinished /\ prevFrame >= 0
  /\ lastEvent = "end" /\ endCount = 1

\* C20: a 'progress' or 'end' handler is invoked only after the process has
\* been launched and, when a 'start' handler is registered, after it returned
C20_EventsAfterStart ==
  (lastFrame >= 0 \/ endCount > 0 \/ lastEvent \in {"progress", "end"}
     \/ inflight["progress"] > 0 \/ inflight["end"] > 0)
  => (/\ proc # "none"
      /\ "start" \in events => (startDone /\ startCount = 1 /\ inflight["start"] = 0))

\* the reader polled the empty scratch file while the 'start' handler was
\* suspended, and a 'progress' event was emitted later in the run
C20_Witness ==
  /\ "start" \in events /\ startDone /\ lastFrame >= 0
  /\ proc = "running" /\ readerPc = "in_progress"
====
